---- MODULE Spec2Model ----
(***************************************************************************)
(* Model of llm_client.client: the pydantic schema layer (Message,         *)
(* ChatCompletionRequest, ResponseChoice, ChatCompletionResponse) and      *)
(* LLMClient.get_completion, called from several threads on one client.    *)
(*                                                                         *)
(* Dynamic Python / JSON values are records of one uniform shape           *)
(*   [k, t, s, n, l]                                                       *)
(* t is the runtime type tag, s a character sequence (str, bytes, the      *)
(* fractional digits of a float), n an integer, l the items of a list or   *)
(* the entries of a dict / the fields of a model instance, and k the key   *)
(* under which the value sits in its enclosing dict ("" elsewhere).        *)
(* JSON text is a sequence of tokens [c, s, n]; a string token carries its *)
(* characters in escaped form.                                             *)
(***************************************************************************)
EXTENDS Integers, Sequences, FiniteSets, TLC

\* ------------------------------------------------------------------ bounds
NumThreads == 2
MaxInvocations == 2
MaxMessages == 2

\* ------------------------------------------------------- dynamic values
V(t, s, n, l) == [k |-> "", t |-> t, s |-> s, n |-> n, l |-> l]
PyStr(s) == V("str", s, 0, <<>>)
PyBytes(s) == V("bytes", s, 0, <<>>)
PyInt(n) == V("int", <<>>, n, <<>>)
PyFloat(n, frac) == V("float", frac, n, <<>>)
PyBool(b) == V("bool", <<>>, IF b THEN 1 ELSE 0, <<>>)
PyNone == V("NoneType", <<>>, 0, <<>>)
PyList(l) == V("list", <<>>, 0, l)
PyDict(l) == V("dict", <<>>, 0, l)
Entry(key, v) == [v EXCEPT !.k = key]

HasKey(d, key) == \E i \in 1..Len(d.l) : d.l[i].k = key
\* dict[key]; a JSON object decoded with a repeated name keeps the last one
Get(d, key) ==
  LET i == CHOOSE j \in 1..Len(d.l) :
             d.l[j].k = key /\ \A m \in (j+1)..Len(d.l) : d.l[m].k # key
  IN  Entry("", d.l[i])

\* --------------------------------------------------------------- JSON text
Tok(c, s, n) == [c |-> c, s |-> s, n |-> n]
P(c) == Tok(c, <<>>, 0)
Special == {"\"", "\\"}

\* mutant: the string is written between the quotes as it is
EscapeStrRaw(s) == s

RECURSIVE EscapeStr(_)
EscapeStr(s) ==
  IF s = <<>> THEN <<>>
  ELSE (IF Head(s) \in Special THEN <<"\\", Head(s)>> ELSE <<Head(s)>>)
       \o EscapeStr(Tail(s))

\* [ok, s]: the characters a JSON string literal denotes; a bare quote or a
\* backslash with nothing after it is not a string literal
RECURSIVE UnescapeStr(_)
UnescapeStr(s) ==
  IF s = <<>> THEN [ok |-> TRUE, s |-> <<>>]
  ELSE IF Head(s) = "\\"
       THEN IF Len(s) < 2 \/ s[2] \notin Special
            THEN [ok |-> FALSE, s |-> <<>>]
            ELSE LET r == UnescapeStr(Tail(Tail(s)))
                 IN  [ok |-> r.ok, s |-> IF r.ok THEN <<s[2]>> \o r.s ELSE <<>>]
       ELSE IF Head(s) = "\""
            THEN [ok |-> FALSE, s |-> <<>>]
            ELSE LET r == UnescapeStr(Tail(s))
                 IN  [ok |-> r.ok, s |-> IF r.ok THEN <<Head(s)>> \o r.s ELSE <<>>]

StrTok(s) == Tok("str", EscapeStr(s), 0)
KeyTok(key) == Tok("str", <<key>>, 0)

\* json.dumps of a dynamic value, as the mock server writes its reply
RECURSIVE JsonDumps(_), DumpItems(_, _)
JsonDumps(v) ==
  CASE v.t = "str" -> <<StrTok(v.s)>>
    [] v.t = "int" -> <<Tok("int", <<>>, v.n)>>
    [] v.t = "float" -> <<Tok("float", v.s, v.n)>>
    [] v.t = "bool" -> <<P(IF v.n = 1 THEN "true" ELSE "false")>>
    [] v.t = "NoneType" -> <<P("null")>>
    [] v.t = "list" -> <<P("[")>> \o DumpItems(v.l, FALSE) \o <<P("]")>>
    [] v.t = "dict" -> <<P("{")>> \o DumpItems(v.l, TRUE) \o <<P("}")>>
DumpItems(l, keyed) ==
  IF l = <<>> THEN <<>>
  ELSE (IF keyed THEN <<KeyTok(Head(l).k), P(":")>> ELSE <<>>)
       \o JsonDumps(Entry("", Head(l)))
       \o (IF Len(l) > 1 THEN <<P(",")>> ELSE <<>>)
       \o DumpItems(Tail(l), keyed)

ParseFail == [ok |-> FALSE, v |-> PyNone, rest |-> <<>>]
ParseOk(v, rest) == [ok |-> TRUE, v |-> v, rest |-> rest]

\* recursive-descent JSON parser over the token sequence
RECURSIVE ParseValue(_), ParseItems(_, _), ParseMembers(_, _)
ParseValue(toks) ==
  IF toks = <<>> THEN ParseFail
  ELSE LET h == Head(toks)
           r == Tail(toks)
       IN  CASE h.c = "str" ->
                  LET u == UnescapeStr(h.s)
                  IN  IF u.ok THEN ParseOk(PyStr(u.s), r) ELSE ParseFail
             [] h.c = "int" -> ParseOk(PyInt(h.n), r)
             [] h.c = "float" -> ParseOk(PyFloat(h.n, h.s), r)
             [] h.c = "true" -> ParseOk(PyBool(TRUE), r)
             [] h.c = "false" -> ParseOk(PyBool(FALSE), r)
             [] h.c = "null" -> ParseOk(PyNone, r)
             [] h.c = "[" ->
                  IF r # <<>> /\ Head(r).c = "]"
                  THEN ParseOk(PyList(<<>>), Tail(r))
                  ELSE ParseItems(r, <<>>)
             [] h.c = "{" ->
                  IF r # <<>> /\ Head(r).c = "}"
                  THEN ParseOk(PyDict(<<>>), Tail(r))
                  ELSE ParseMembers(r, <<>>)
             [] OTHER -> ParseFail
ParseItems(toks, acc) ==
  LET e == ParseValue(toks)
  IN  IF ~e.ok \/ e.rest = <<>> THEN ParseFail
      ELSE IF Head(e.rest).c = "," THEN ParseItems(Tail(e.rest), Append(acc, e.v))
      ELSE IF Head(e.rest).c = "]" THEN ParseOk(PyList(Append(acc, e.v)), Tail(e.rest))
      ELSE ParseFail
ParseMembers(toks, acc) ==
  IF Len(toks) < 3 \/ toks[1].c # "str" \/ Len(toks[1].s) # 1 \/ toks[2].c # ":"
  THEN ParseFail
  ELSE LET e == ParseValue(Tail(Tail(toks)))
           m == Entry(toks[1].s[1], e.v)
       IN  IF ~e.ok \/ e.rest = <<>> THEN ParseFail
           ELSE IF Head(e.rest).c = "," THEN ParseMembers(Tail(e.rest), Append(acc, m))
           ELSE IF Head(e.rest).c = "}" THEN ParseOk(PyDict(Append(acc, m)), Tail(e.rest))
           ELSE ParseFail

\* response.json(): [ok, v]; not ok is requests.exceptions.JSONDecodeError
JsonLoads(toks) ==
  LET r == ParseValue(toks)
  IN  IF r.ok /\ r.rest = <<>> THEN [ok |-> TRUE, v |-> r.v]
      ELSE [ok |-> FALSE, v |-> PyNone]

\* ------------------------------------------------- pydantic field validators
\* pydantic validates in its default (lax) mode: a str field takes a str and
\* decodes bytes; an int field takes an int, a bool, a float without
\* fractional part and a str or bytes of decimal digits; a list field takes a
\* list or a tuple.
Digits == <<"0", "1", "2", "3", "4", "5", "6", "7", "8", "9">>
IsDigit(c) == \E d \in 1..10 : Digits[d] = c
DigitVal(c) == (CHOOSE d \in 1..10 : Digits[d] = c) - 1
RECURSIVE ParseInt(_, _)
ParseInt(s, acc) ==
  IF s = <<>> THEN acc ELSE ParseInt(Tail(s), 10 * acc + DigitVal(Head(s)))
IsDecimal(s) == s # <<>> /\ \A i \in 1..Len(s) : IsDigit(s[i])

StrField(v) ==
  IF v.t \in {"str", "bytes"} THEN [ok |-> TRUE, s |-> v.s]
  ELSE [ok |-> FALSE, s |-> <<>>]
IntField(v) ==
  CASE v.t \in {"int", "bool"} -> [ok |-> TRUE, n |-> v.n]
    [] v.t = "float" /\ \A i \in 1..Len(v.s) : v.s[i] = "0" -> [ok |-> TRUE, n |-> v.n]
    [] v.t \in {"str", "bytes"} /\ IsDecimal(v.s) -> [ok |-> TRUE, n |-> ParseInt(v.s, 0)]
    [] OTHER -> [ok |-> FALSE, n |-> 0]
ListField(v) ==
  IF v.t \in {"list", "tuple"} THEN [ok |-> TRUE, l |-> v.l]
  ELSE [ok |-> FALSE, l |-> <<>>]

\* errors of one required field of a dict: missing, or present and rejected
Accepts(type, v) == IF type = "int" THEN IntField(v).ok ELSE StrField(v).ok
FieldErrs(d, key, loc, type) ==
  IF HasKey(d, key) /\ Accepts(type, Get(d, key)) THEN {} ELSE {loc \o <<key>>}
StrOf(d, key) == IF HasKey(d, key) THEN StrField(Get(d, key)).s ELSE <<>>
IntOf(d, key) == IF HasKey(d, key) THEN IntField(Get(d, key)).n ELSE 0
\* mutant: the models forbid the keys no field declares
ExtraErrsForbid(d, fields, loc) ==
  {loc \o <<d.l[i].k>> : i \in {j \in 1..Len(d.l) : d.l[j].k \notin fields}}

\* BaseModel's default configuration ignores the keys no field declares
ExtraErrs(d, fields, loc) == {}

NoMessage == [role |-> <<>>, content |-> <<>>]
\* class Message(BaseModel): an instance passes as it is, a dict is validated
\* field by field, unknown keys are ignored, anything else is rejected at loc
Message(v, loc) ==
  CASE v.t = "Message" ->
         [errs |-> {}, val |-> [role |-> StrOf(v, "role"), content |-> StrOf(v, "content")]]
    [] v.t = "dict" ->
         LET e == FieldErrs(v, "role", loc, "str")
                    \cup FieldErrs(v, "content", loc, "str")
                    \cup ExtraErrs(v, {"role", "content"}, loc)
         IN  [errs |-> e,
              val |-> IF e = {} THEN [role |-> StrOf(v, "role"), content |-> StrOf(v, "content")]
                      ELSE NoMessage]
    [] OTHER -> [errs |-> {loc}, val |-> NoMessage]

\* Message(role=..., content=...) as the caller builds it
MessageInstance(role, content) ==
  V("Message", <<>>, 0, <<Entry("role", PyStr(role)), Entry("content", PyStr(content))>>)

NoRequest == [model |-> <<>>, messages |-> <<>>]
\* ChatCompletionRequest(model=model, messages=messages)
ChatCompletionRequest(model, messages) ==
  LET ms == ListField(messages)
      each == [i \in 1..Len(ms.l) |-> Message(ms.l[i], <<"messages", ToString(i - 1)>>)]
      e == (IF StrField(model).ok THEN {} ELSE {<<"model">>})
             \cup (IF ms.ok THEN UNION {each[i].errs : i \in 1..Len(ms.l)}
                   ELSE {<<"messages">>})
  IN  [errs |-> e,
       val |-> IF e = {}
               THEN [model |-> StrField(model).s,
                     messages |-> [i \in 1..Len(ms.l) |-> each[i].val]]
               ELSE NoRequest]

NoChoice == [index |-> 0, message |-> NoMessage]
\* class ResponseChoice(BaseModel)
ResponseChoice(v, loc) ==
  IF v.t # "dict" THEN [errs |-> {loc}, val |-> NoChoice]
  ELSE LET m == IF HasKey(v, "message") THEN Message(Get(v, "message"), loc \o <<"message">>)
                ELSE [errs |-> {loc \o <<"message">>}, val |-> NoMessage]
           e == FieldErrs(v, "index", loc, "int") \cup m.errs
                  \cup ExtraErrs(v, {"index", "message"}, loc)
       IN  [errs |-> e,
            val |-> IF e = {} THEN [index |-> IntOf(v, "index"), message |-> m.val]
                    ELSE NoChoice]

NoResponse == [id |-> <<>>, object |-> <<>>, created |-> 0, model |-> <<>>, choices |-> <<>>]
\* ChatCompletionResponse.model_validate(response_data)
ChatCompletionResponse(v) ==
  IF v.t # "dict" THEN [errs |-> {<<>>}, val |-> NoResponse]
  ELSE LET cs == IF HasKey(v, "choices") THEN ListField(Get(v, "choices"))
                 ELSE [ok |-> FALSE, l |-> <<>>]
           each == [i \in 1..Len(cs.l) |-> ResponseChoice(cs.l[i], <<"choices", ToString(i - 1)>>)]
           e == FieldErrs(v, "id", <<>>, "str")
                  \cup FieldErrs(v, "object", <<>>, "str")
                  \cup FieldErrs(v, "created", <<>>, "int")
                  \cup FieldErrs(v, "model", <<>>, "str")
                  \cup ExtraErrs(v, {"id", "object", "created", "model", "choices"}, <<>>)
                  \cup (IF cs.ok THEN UNION {each[i].errs : i \in 1..Len(cs.l)}
                        ELSE {<<"choices">>})
       IN  [errs |-> e,
            val |-> IF e = {}
                    THEN [id |-> StrOf(v, "id"), object |-> StrOf(v, "object"),
                          created |-> IntOf(v, "created"), model |-> StrOf(v, "model"),
                          choices |-> [i \in 1..Len(cs.l) |-> each[i].val]]
                    ELSE NoResponse]

\* request_data.model_dump_json(): the fields in declaration order
RECURSIVE DumpMessages(_)
DumpMessages(ms) ==
  IF ms = <<>> THEN <<>>
  ELSE <<P("{"), KeyTok("role"), P(":"), StrTok(Head(ms).role), P(","),
         KeyTok("content"), P(":"), StrTok(Head(ms).content), P("}")>>
       \o (IF Len(ms) > 1 THEN <<P(",")>> ELSE <<>>)
       \o DumpMessages(Tail(ms))
model_dump_json(req) ==
  <<P("{"), KeyTok("model"), P(":"), StrTok(req.model), P(","),
    KeyTok("messages"), P(":"), P("[")>>
  \o DumpMessages(req.messages) \o <<P("]"), P("}")>>

\* ------------------------------------------------------------- exceptions
\* mutant: response.json() raises the json module's own JSONDecodeError
MroPlainJson(kind) ==
  CASE kind = "ValidationError" -> {"ValidationError", "ValueError"}
    [] kind = "HTTPError" -> {"HTTPError", "RequestException", "OSError"}
    [] kind = "ConnectionError" -> {"ConnectionError", "RequestException", "OSError"}
    [] kind = "JSONDecodeError" -> {"JSONDecodeError", "ValueError"}
    [] OTHER -> {kind}

\* the classes an exception is an instance of (its class and its bases)
Mro(kind) ==
  CASE kind = "ValidationError" -> {"ValidationError", "ValueError"}
    [] kind = "HTTPError" -> {"HTTPError", "RequestException", "OSError"}
    [] kind = "ConnectionError" -> {"ConnectionError", "RequestException", "OSError"}
    [] kind = "JSONDecodeError" ->
         {"JSONDecodeError", "InvalidJSONError", "RequestException", "OSError", "ValueError"}
    [] OTHER -> {kind}
NoExc == [kind |-> "", locs |-> {}]
Exc(kind, locs) == [kind |-> kind, locs |-> locs]

\* mutant: only the transport handler prints
PrintedTransportOnly(e) ==
  IF "ValidationError" \in Mro(e.kind) THEN <<>>
  ELSE IF "RequestException" \in Mro(e.kind) THEN <<"HTTP request failed">>
  ELSE <<>>

\* the except clauses of get_completion: the line printed before the re-raise
\* (a line is named by its fixed text; the rendering of e is left out)
Printed(e) ==
  IF "ValidationError" \in Mro(e.kind) THEN <<"Data validation error">>
  ELSE IF "RequestException" \in Mro(e.kind) THEN <<"HTTP request failed">>
  ELSE <<>>

\* mutant: only server errors raise
RaisesForStatus5xx(status) == 500 <= status /\ status < 600

\* response.raise_for_status()
RaisesForStatus(status) == 400 <= status /\ status < 600

\* ------------------------------------------------------------------ state
VARIABLES
  base_url,   \* self.base_url
  headers,    \* self.headers
  pc,         \* per thread: "idle", "posting", "returned", "raised"
  args,       \* per thread: the arguments of its current invocation
  conn,       \* per thread: the POST in flight, as the transport sent it
  reply,      \* per thread: the response the transport handed back
  ret,        \* per thread: the value get_completion returned
  exc,        \* per thread: the exception get_completion raised
  trace,      \* per thread: which steps its current invocation has executed,
              \* and whether it repeats the arguments of the thread's last one
  calls,      \* per thread: invocations started
  posts,      \* per thread: POSTs sent during its current invocation
  stdout      \* per thread: the lines its current invocation has written to
              \* the standard output
vars == <<base_url, headers, pc, args, conn, reply, ret, exc, trace, calls, posts, stdout>>

Threads == 1..NumThreads
Endpoint == "/v1/chat/completions"
NoTimeout == "None"

NoArgs == [model |-> PyNone, messages |-> PyNone]
NoConn == [state |-> "none", url |-> <<>>, headers |-> <<>>, data |-> <<>>, timeout |-> NoTimeout]
NoReply == [got |-> FALSE, status |-> 0, text |-> <<>>]
NoRet == [some |-> FALSE, v |-> NoResponse]
NoTrace == [again |-> FALSE, decoded |-> FALSE, parsed |-> FALSE]

\* LLMClient(base_url, api_key).headers
HeadersFor(api_key) ==
  <<[name |-> "Authorization", value |-> <<"Bearer ", api_key>>],
    [name |-> "Content-Type", value |-> <<"application/json">>]>>

Init ==
  /\ base_url = "http://localhost:8000"
  /\ headers = HeadersFor("YOUR_API_KEY")
  /\ pc = [t \in Threads |-> "idle"]
  /\ args = [t \in Threads |-> NoArgs]
  /\ conn = [t \in Threads |-> NoConn]
  /\ reply = [t \in Threads |-> NoReply]
  /\ ret = [t \in Threads |-> NoRet]
  /\ exc = [t \in Threads |-> NoExc]
  /\ trace = [t \in Threads |-> NoTrace]
  /\ calls = [t \in Threads |-> 0]
  /\ posts = [t \in Threads |-> 0]
  /\ stdout = [t \in Threads |-> <<>>]

\* requests.post(url, headers=self.headers, data=payload): no timeout argument
Post(url, hdrs, payload) ==
  [state |-> "open", url |-> url, headers |-> hdrs, data |-> payload, timeout |-> NoTimeout]

\* mutant: the client keeps the last error in a field all invocations share
RaiseShared(t, e) ==
  /\ pc' = [pc EXCEPT ![t] = "raised"]
  /\ exc' = [u \in Threads |-> e]
  /\ stdout' = [stdout EXCEPT ![t] = Printed(e)]

\* the invocation ends by raising e through the except clauses
Raise(t, e) ==
  /\ pc' = [pc EXCEPT ![t] = "raised"]
  /\ exc' = [exc EXCEPT ![t] = e]
  /\ stdout' = [stdout EXCEPT ![t] = Printed(e)]

\* get_completion(model, messages) up to the blocking POST (lines 126-135)
Invoke(t, model, messages) ==
  /\ pc[t] \in {"idle", "returned", "raised"}
  /\ calls[t] < MaxInvocations
  /\ calls' = [calls EXCEPT ![t] = @ + 1]
  /\ args' = [args EXCEPT ![t] = [model |-> model, messages |-> messages]]
  /\ reply' = [reply EXCEPT ![t] = NoReply]
  /\ ret' = [ret EXCEPT ![t] = NoRet]
  /\ LET url == <<base_url, Endpoint>>
         request_data == ChatCompletionRequest(model, messages)
         again == calls[t] > 0 /\ args[t] = [model |-> model, messages |-> messages]
     IN  IF request_data.errs # {}
         THEN /\ Raise(t, Exc("ValidationError", request_data.errs))
              /\ trace' = [trace EXCEPT ![t] = [NoTrace EXCEPT !.again = again]]
              /\ conn' = [conn EXCEPT ![t] = NoConn]
              /\ posts' = [posts EXCEPT ![t] = 0]
         ELSE /\ conn' = [conn EXCEPT ![t] = Post(url, headers, model_dump_json(request_data.val))]
              /\ posts' = [posts EXCEPT ![t] = 1]
              /\ trace' = [trace EXCEPT ![t] = [NoTrace EXCEPT !.again = again]]
              /\ pc' = [pc EXCEPT ![t] = "posting"]
              /\ exc' = [exc EXCEPT ![t] = NoExc]
              /\ stdout' = [stdout EXCEPT ![t] = <<>>]
  /\ UNCHANGED <<base_url, headers>>

\* get_completion from the return of requests.post to its end (lines 136-147)
Finish(t, status, text) ==
  IF RaisesForStatus(status)
  THEN /\ Raise(t, Exc("HTTPError", {}))
       /\ UNCHANGED <<ret, trace>>
  ELSE LET response_data == JsonLoads(text)
       IN  IF ~response_data.ok
           THEN /\ Raise(t, Exc("JSONDecodeError", {}))
                /\ trace' = [trace EXCEPT ![t].decoded = TRUE]
                /\ UNCHANGED ret
           ELSE LET r == ChatCompletionResponse(response_data.v)
                IN  /\ trace' = [trace EXCEPT ![t].decoded = TRUE, ![t].parsed = TRUE]
                    /\ IF r.errs # {}
                       THEN /\ Raise(t, Exc("ValidationError", r.errs))
                            /\ UNCHANGED ret
                       ELSE /\ ret' = [ret EXCEPT ![t] = [some |-> TRUE, v |-> r.val]]
                            /\ pc' = [pc EXCEPT ![t] = "returned"]
                            /\ UNCHANGED <<exc, stdout>>

\* mutant: a failed status is answered by sending the request once more
RespondRetry(t, status, text) ==
  /\ pc[t] = "posting"
  /\ conn[t].state = "open"
  /\ IF RaisesForStatus(status) /\ posts[t] < 2
     THEN /\ posts' = [posts EXCEPT ![t] = @ + 1]
          /\ UNCHANGED <<pc, conn, reply, ret, exc, trace, stdout>>
     ELSE /\ conn' = [conn EXCEPT ![t].state = "closed"]
          /\ reply' = [reply EXCEPT ![t] = [got |-> TRUE, status |-> status, text |-> text]]
          /\ Finish(t, status, text)
          /\ UNCHANGED posts
  /\ UNCHANGED <<base_url, headers, args, calls>>

\* the server answers: requests.post returns and get_completion runs to its end
Respond(t, status, text) ==
  /\ pc[t] = "posting"
  /\ conn[t].state = "open"
  /\ conn' = [conn EXCEPT ![t].state = "closed"]
  /\ reply' = [reply EXCEPT ![t] = [got |-> TRUE, status |-> status, text |-> text]]
  /\ Finish(t, status, text)
  /\ UNCHANGED <<base_url, headers, args, calls, posts>>

\* the connection fails: DNS, refusal, reset (requests.post raises)
ConnectionFails(t) ==
  /\ pc[t] = "posting"
  /\ conn[t].state = "open"
  /\ conn' = [conn EXCEPT ![t].state = "failed"]
  /\ Raise(t, Exc("ConnectionError", {}))
  /\ UNCHANGED <<base_url, headers, args, reply, ret, trace, calls, posts>>

\* the server accepts the connection and never answers; requests.post was
\* given no timeout, so nothing ends the wait
ServerSilent(t) ==
  /\ pc[t] = "posting"
  /\ conn[t].state = "open"
  /\ conn' = [conn EXCEPT ![t].state = "silent"]
  /\ UNCHANGED <<base_url, headers, pc, args, reply, ret, exc, trace, calls, posts, stdout>>

\* ------------------------------------------------------------ input data
\* A character sequence is a sequence of chunks: a run of ordinary
\* characters, one digit, or one of the two characters JSON escapes.
Msg(role, content) == PyDict(<<Entry("role", PyStr(role)), Entry("content", PyStr(content))>>)
Choice(index, message) == PyDict(<<Entry("index", index), Entry("message", message)>>)
Opt(key, values) == {<<>>} \cup {<<Entry(key, v)>> : v \in values}
Must(key, values) == {<<Entry(key, v)>> : v \in values}

\* the reply of the mock server (client.py lines 164-178)
GoodBody ==
  PyDict(<<Entry("id", PyStr(<<"chatcmpl-123">>)),
           Entry("object", PyStr(<<"chat.completion">>)),
           Entry("created", PyInt(1677652288)),
           Entry("model", PyStr(<<"gpt-3.5-turbo-0613">>)),
           Entry("choices", PyList(<<Choice(PyInt(0), Msg(<<"assistant">>, <<"Hello there!">>))>>))>>)
GoodText == JsonDumps(GoodBody)
NoChoicesText == JsonDumps(PyDict(SubSeq(GoodBody.l, 1, 4)))
TruncatedText == SubSeq(GoodText, 1, Len(GoodText) - 1)

\* the callers and servers of the concurrent specification
Models == {PyStr(<<"gpt-3.5-turbo">>)}
MessageLists ==
  {PyList(<<MessageInstance(<<"system">>, <<"you are a helpful assistant">>),
            MessageInstance(<<"user">>, <<"what is the meaning of life ?">>)>>),
   PyList(<<Msg(<<"user">>, <<"say ", "\"", "hi", "\"">>)>>),
   PyList(<<PyDict(<<Entry("role", PyStr(<<"user">>))>>)>>)}
Reply(status, text) == [status |-> status, text |-> text]
Replies ==
  {Reply(200, GoodText), Reply(200, NoChoicesText), Reply(200, TruncatedText),
   Reply(404, GoodText)}

\* the callers and servers of the single-caller specification: inputs and
\* bodies of every shape the schema layer tells apart
RichModels ==
  {PyStr(<<>>), PyStr(<<"m", "\"", "\\">>), PyBytes(<<"gpt">>), PyInt(4), PyNone}
Elements ==
  {MessageInstance(<<"user">>, <<"Hi">>),
   PyDict(<<Entry("name", PyStr(<<"n">>)), Entry("content", PyStr(<<"a", "\\", "\"">>)),
            Entry("role", PyStr(<<"system">>))>>),
   PyDict(<<Entry("role", PyStr(<<"user">>)), Entry("content", PyBytes(<<"raw">>))>>),
   PyDict(<<Entry("role", PyStr(<<"user">>))>>),
   PyDict(<<Entry("role", PyInt(1)), Entry("content", PyNone)>>),
   PyStr(<<"hello">>)}
SeqsUpTo(S, n) == UNION {[1..m -> S] : m \in 0..n}
RichMessageLists ==
  {PyList(l) : l \in SeqsUpTo(Elements, MaxMessages)}
  \cup {V("tuple", <<>>, 0, <<MessageInstance(<<"user">>, <<"Hi">>)>>),
        PyNone, PyStr(<<"hello">>), Msg(<<"user">>, <<"Hi">>)}

IdOpts == Opt("id", {PyStr(<<"chatcmpl-1">>), PyInt(7)})
ObjectOpts == Must("object", {PyStr(<<"chat.completion">>)})
CreatedOpts ==
  Opt("created", {PyInt(1677652288), PyStr(<<"1", "2">>), PyStr(<<"soon">>),
                  PyFloat(3, <<"5">>), PyBool(TRUE)})
ModelOpts == Opt("model", {PyStr(<<"gpt", "\"">>)})
Choices ==
  {<<>>,
   <<Choice(PyInt(0), Msg(<<"assistant">>, <<"Hello">>))>>,
   <<Choice(PyInt(1), Msg(<<"assistant">>, <<"B">>)),
     Choice(PyInt(0), PyDict(<<Entry("role", PyStr(<<"tool">>)),
                               Entry("content", PyStr(<<"\\", "n">>)),
                               Entry("refusal", PyNone)>>))>>,
   <<Choice(PyStr(<<"1">>), Msg(<<"assistant">>, <<"Hello">>))>>,
   <<Choice(PyInt(0), Msg(<<"assistant">>, <<"Hello">>)),
     Choice(PyStr(<<"first">>), PyDict(<<Entry("role", PyInt(2))>>))>>,
   <<PyDict(<<Entry("index", PyInt(0))>>), PyNone>>}
ChoicesOpts == Opt("choices", {PyList(l) : l \in Choices} \cup {PyStr(<<"none">>)})
ExtraOpts == Opt("usage", {PyDict(<<Entry("total_tokens", PyInt(9))>>)})
RichBodies ==
  {PyDict(x \o a \o b \o c \o d \o e) :
     x \in ExtraOpts, a \in IdOpts, b \in ObjectOpts, c \in CreatedOpts,
     d \in ModelOpts, e \in ChoicesOpts}
  \cup {PyList(<<GoodBody>>), PyStr(<<"ok">>), PyNone}
RichReplies ==
  {Reply(200, JsonDumps(b)) : b \in RichBodies}
  \cup {Reply(200, TruncatedText), Reply(200, <<>>),
        Reply(200, <<Tok("str", <<"\"">>, 0)>>),
        Reply(201, GoodText), Reply(404, GoodText), Reply(503, TruncatedText)}

ThreadNext(t) ==
  \/ ConnectionFails(t)
  \/ ServerSilent(t)
  \/ \E r \in Replies : Respond(t, r.status, r.text)
  \/ \E model \in Models, messages \in MessageLists : Invoke(t, model, messages)

Next == \E t \in Threads : ThreadNext(t)

Spec == Init /\ [][Next]_vars

\* one caller, one call
SchemaNext ==
  \/ /\ calls[1] = 0
     /\ \E model \in RichModels, messages \in RichMessageLists : Invoke(1, model, messages)
  \/ \E r \in RichReplies : Respond(1, r.status, r.text)
  \/ ConnectionFails(1)
  \/ ServerSilent(1)

SchemaSpec == Init /\ [][SchemaNext]_vars

\* Every thread that can take a step eventually takes one.  Once the server
\* has gone silent no step of the thread is left: requests.post has no timer.
FairSpec == Spec /\ \A t \in Threads : WF_vars(ThreadNext(t))

\* ================================================================ claims
\* What the claims call well-typed: every value of exactly its declared type.
IsStrAt(d, key) == HasKey(d, key) /\ Get(d, key).t = "str"
IsIntAt(d, key) == HasKey(d, key) /\ Get(d, key).t = "int"
IsMessage(v) ==
  \/ v.t = "Message"
  \/ v.t = "dict" /\ IsStrAt(v, "role") /\ IsStrAt(v, "content")
IsSequence(v) == v.t \in {"list", "tuple"}
ValidRequestInputs(a) ==
  /\ a.model.t = "str"
  /\ IsSequence(a.messages)
  /\ \A i \in 1..Len(a.messages.l) : IsMessage(a.messages.l[i])
IsChoice(c) ==
  /\ c.t = "dict"
  /\ IsIntAt(c, "index")
  /\ HasKey(c, "message") /\ Get(c, "message").t = "dict"
  /\ IsStrAt(Get(c, "message"), "role") /\ IsStrAt(Get(c, "message"), "content")
ConformingBody(v) ==
  /\ v.t = "dict"
  /\ IsStrAt(v, "id") /\ IsStrAt(v, "object") /\ IsIntAt(v, "created") /\ IsStrAt(v, "model")
  /\ HasKey(v, "choices") /\ Get(v, "choices").t = "list"
  /\ \A i \in 1..Len(Get(v, "choices").l) : IsChoice(Get(v, "choices").l[i])
\* the fields of a body that are missing or not of their declared type
BadStr(d, key, loc) == IF IsStrAt(d, key) THEN {} ELSE {loc \o <<key>>}
BadInt(d, key, loc) == IF IsIntAt(d, key) THEN {} ELSE {loc \o <<key>>}
BadChoice(c, loc) ==
  IF c.t # "dict" THEN {loc}
  ELSE BadInt(c, "index", loc)
       \cup (IF HasKey(c, "message") /\ Get(c, "message").t = "dict"
             THEN BadStr(Get(c, "message"), "role", loc \o <<"message">>)
                  \cup BadStr(Get(c, "message"), "content", loc \o <<"message">>)
             ELSE {loc \o <<"message">>})
NonconformingFields(v) ==
  BadStr(v, "id", <<>>) \cup BadStr(v, "object", <<>>) \cup BadInt(v, "created", <<>>)
  \cup BadStr(v, "model", <<>>)
  \cup (IF HasKey(v, "choices") /\ Get(v, "choices").t = "list"
        THEN UNION {BadChoice(Get(v, "choices").l[i], <<"choices", ToString(i - 1)>>) :
                      i \in 1..Len(Get(v, "choices").l)}
        ELSE {<<"choices">>})

Success(status) == 200 <= status /\ status < 300
\* thread t got a success status with a body that decodes
Decoded(t) == reply[t].got /\ Success(reply[t].status) /\ JsonLoads(reply[t].text).ok
Body(t) == JsonLoads(reply[t].text).v
IsTransportError(e) == "RequestException" \in Mro(e.kind) /\ "ValidationError" \notin Mro(e.kind)

\* C1: an invocation whose model is not a string, whose messages is not a
\* sequence, or one of whose elements lacks a string role or content, raises
\* ValidationError and sends no POST.
C1_MalformedInputsRaiseBeforePost ==
  \A t \in Threads :
    (calls[t] > 0 /\ ~ValidRequestInputs(args[t]))
      => /\ pc[t] = "raised"
         /\ exc[t].kind = "ValidationError"
         /\ posts[t] = 0
         /\ conn[t].state = "none"

\* C2: after a 4xx/5xx status or a connection failure the invocation has
\* raised a RequestException that is no ValidationError, the body was not
\* decoded, the response model was not built and nothing was returned.
TransportFailed(t) ==
  \/ conn[t].state = "failed"
  \/ reply[t].got /\ 400 <= reply[t].status /\ reply[t].status < 600
C2_TransportFailureSkipsParsing ==
  \A t \in Threads :
    TransportFailed(t)
      => /\ pc[t] = "raised"
         /\ IsTransportError(exc[t])
         /\ ~trace[t].decoded
         /\ ~trace[t].parsed
         /\ ~ret[t].some
C2_Witness ==
  \E t, u \in Threads :
    /\ reply[t].got /\ reply[t].status = 404 /\ exc[t].kind = "HTTPError"
    /\ conn[u].state = "failed" /\ exc[u].kind = "ConnectionError"

\* C3: a success status with a body whose five fields have their declared
\* types is returned as a response with the same id, object, created, model
\* and choices (order, index, role, content), with or without unknown
\* fields in the body, and the result holds the declared fields only.
SameChoice(c, v) ==
  /\ DOMAIN c = {"index", "message"}
  /\ DOMAIN c.message = {"role", "content"}
  /\ c.index = Get(v, "index").n
  /\ c.message.role = Get(Get(v, "message"), "role").s
  /\ c.message.content = Get(Get(v, "message"), "content").s
C3_ConformingBodyReturned ==
  \A t \in Threads :
    (Decoded(t) /\ ConformingBody(Body(t)))
      => /\ pc[t] = "returned"
         /\ ret[t].some
         /\ DOMAIN ret[t].v = {"id", "object", "created", "model", "choices"}
         /\ ret[t].v.id = Get(Body(t), "id").s
         /\ ret[t].v.object = Get(Body(t), "object").s
         /\ ret[t].v.created = Get(Body(t), "created").n
         /\ ret[t].v.model = Get(Body(t), "model").s
         /\ Len(ret[t].v.choices) = Len(Get(Body(t), "choices").l)
         /\ \A i \in 1..Len(ret[t].v.choices) :
              SameChoice(ret[t].v.choices[i], Get(Body(t), "choices").l[i])
C3_Witness ==
  \E t \in Threads :
    /\ Decoded(t) /\ ConformingBody(Body(t))
    /\ HasKey(Body(t), "usage")
    /\ Len(Get(Body(t), "choices").l) = 2
    /\ HasKey(Get(Get(Body(t), "choices").l[2], "message"), "refusal")
    /\ ret[t].some /\ Len(ret[t].v.choices) = 2 /\ ret[t].v.choices[1].index = 1

\* C4: a success status with a body in which a field is missing or not of
\* its declared type raises ValidationError, returns nothing, and the error
\* names every such field.
C4_NonconformingBodyRejected ==
  \A t \in Threads :
    (Decoded(t) /\ Body(t).t = "dict" /\ ~ConformingBody(Body(t)))
      => /\ pc[t] = "raised"
         /\ exc[t].kind = "ValidationError"
         /\ ~ret[t].some
         /\ exc[t].locs = NonconformingFields(Body(t))

\* C5: every invocation that is waiting for its POST ends, with a result or
\* with an error.
C5_EveryInvocationEnds ==
  \A t \in Threads : (pc[t] = "posting") ~> (pc[t] \in {"returned", "raised"})

\* C6: a success status with a body that is not JSON raises a
\* RequestException that is no ValidationError, and the response model is
\* not built.
Undecodable(t) == reply[t].got /\ Success(reply[t].status) /\ ~JsonLoads(reply[t].text).ok
C6_MalformedBodyIsTransportError ==
  \A t \in Threads :
    Undecodable(t)
      => /\ pc[t] = "raised"
         /\ IsTransportError(exc[t])
         /\ ~trace[t].parsed
         /\ ~ret[t].some
C6_Witness ==
  \E t \in Threads :
    Undecodable(t) /\ reply[t].text # <<>> /\ exc[t].kind = "JSONDecodeError"
      /\ trace[t].decoded

\* C7: an invocation whose request is valid has sent exactly one POST,
\* whatever came back, a later invocation with the same arguments included;
\* an invocation whose request is not valid has sent none.
PassedValidation(t) ==
  calls[t] > 0 /\ ChatCompletionRequest(args[t].model, args[t].messages).errs = {}
C7_ExactlyOnePost ==
  \A t \in Threads : posts[t] = IF PassedValidation(t) THEN 1 ELSE 0
C7_Witness ==
  \E t \in Threads :
    /\ calls[t] = 2 /\ trace[t].again /\ posts[t] = 1
    /\ reply[t].got /\ reply[t].status = 404

\* C8: for a string model and a sequence of Messages the body sent decodes
\* to an object with exactly the fields model and messages, the model equal
\* to the input and the messages equal to the input's, one by one, in order.
SameMessage(sent, given) ==
  /\ sent.t = "dict"
  /\ Len(sent.l) = 2
  /\ HasKey(sent, "role") /\ Get(sent, "role") = PyStr(Get(given, "role").s)
  /\ HasKey(sent, "content") /\ Get(sent, "content") = PyStr(Get(given, "content").s)
C8_SentBodyMirrorsInputs ==
  \A t \in Threads :
    (conn[t].state # "none" /\ ValidRequestInputs(args[t]))
      => LET sent == JsonLoads(conn[t].data)
         IN  /\ sent.ok
             /\ sent.v.t = "dict"
             /\ Len(sent.v.l) = 2
             /\ HasKey(sent.v, "model") /\ Get(sent.v, "model") = args[t].model
             /\ HasKey(sent.v, "messages") /\ Get(sent.v, "messages").t = "list"
             /\ Len(Get(sent.v, "messages").l) = Len(args[t].messages.l)
             /\ \A i \in 1..Len(args[t].messages.l) :
                  SameMessage(Get(sent.v, "messages").l[i], args[t].messages.l[i])
C8_Witness ==
  \E t \in Threads :
    /\ conn[t].state # "none" /\ ValidRequestInputs(args[t])
    /\ args[t].model = PyStr(<<"m", "\"", "\\">>)
    /\ Len(args[t].messages.l) = 2
    /\ args[t].messages.l[1] # args[t].messages.l[2]
    /\ HasKey(args[t].messages.l[2], "name")

\* C9: base_url and headers stay as the constructor set them, and what a
\* thread sent, returned or raised is what its own arguments and the reply
\* to its own POST give when the call runs alone.
Alone(a, c, r) ==
  LET req == ChatCompletionRequest(a.model, a.messages)
      body == JsonLoads(r.text)
      resp == ChatCompletionResponse(body.v)
      raised(e) == [pc |-> "raised", exc |-> e, ret |-> NoRet]
  IN  IF req.errs # {} THEN raised(Exc("ValidationError", req.errs))
      ELSE IF c = "failed" THEN raised(Exc("ConnectionError", {}))
      ELSE IF ~r.got THEN [pc |-> "posting", exc |-> NoExc, ret |-> NoRet]
      ELSE IF RaisesForStatus(r.status) THEN raised(Exc("HTTPError", {}))
      ELSE IF ~body.ok THEN raised(Exc("JSONDecodeError", {}))
      ELSE IF resp.errs # {} THEN raised(Exc("ValidationError", resp.errs))
      ELSE [pc |-> "returned", exc |-> NoExc, ret |-> [some |-> TRUE, v |-> resp.val]]
C9_InvocationsAreIndependent ==
  /\ base_url = "http://localhost:8000"
  /\ headers = HeadersFor("YOUR_API_KEY")
  /\ \A t \in Threads :
       calls[t] > 0
         => /\ [pc |-> pc[t], exc |-> exc[t], ret |-> ret[t]]
                 = Alone(args[t], conn[t].state, reply[t])
            /\ conn[t].state # "none"
                 => /\ conn[t].url = <<"http://localhost:8000", Endpoint>>
                    /\ conn[t].headers = HeadersFor("YOUR_API_KEY")
                    /\ conn[t].data
                         = model_dump_json(ChatCompletionRequest(args[t].model, args[t].messages).val)
C9_Witness ==
  \E t, u \in Threads :
    /\ args[t] # args[u]
    /\ pc[t] = "returned"
    /\ pc[u] = "raised" /\ exc[u].kind = "ValidationError" /\ reply[u].got

====
